---------------------------- MODULE Spec2Model ----------------------------
(***************************************************************************)
(* Povy sandbox backend (src/backend/server.js): the Account collection,   *)
(* the Transaction collection (the ledger) and the Express handlers that   *)
(* read and write them.  Every handler is an async function: it runs       *)
(* atomically between two awaits, and each awaited store operation takes   *)
(* effect atomically at some later moment.  One request is one process;    *)
(* pc[p] is the await the handler of request p is suspended at.            *)
(***************************************************************************)
EXTENDS Integers, Sequences, FiniteSets, TLC

(* ------------------------------ bounds -------------------------------- *)

\* number of requests the server receives in one behaviour
NumReqs == 2
\* largest amount / balance / delta a request carries
MaxAmount == 2
\* the clock runs from 0 to here
MaxClock == 1

(* ------------------------- program constants -------------------------- *)

DefaultBalance == 10000

\* .limit(50) of the transaction history
PageLimit == 50

allowedCurrencies == {"USD", "MXN", "JPY"}

(* ------------------------------ inputs -------------------------------- *)

Reqs == 1..NumReqs

\* the account numbers generateUniqueAccountNumber can draw
Accts == {"001-00000001", "001-00000002"}
\* an account number no account ever has, and the missing one
AcctInputs == Accts \cup {"001-99999999", ""}

\* A JSON value of a request body, as far as Number() and typeof tell them
\* apart: a number n, the decimal string of n, a non-numeric string, a
\* number literal too large for a double (1e999), null, or absent.
Undef == [k |-> "undefined", n |-> 0]
Null == [k |-> "null", n |-> 0]
Text == [k |-> "text", n |-> 0]
Huge == [k |-> "huge", n |-> 0]
Num(i) == [k |-> "number", n |-> i]
NumStr(i) == [k |-> "numstr", n |-> i]

AmountInputs == {Undef, Null, Text, Huge} \cup {Num(i) : i \in -1..MaxAmount}

\* absent, supported, unsupported
CurrencyInputs == {"", "MXN", "EUR"}
\* the payment handlers take any currency string
PayCurrencyInputs == {"", "JPY"}

\* card numbers are strings of characters; a request may space them
CardNumberOf(a) == IF a = "001-00000001" THEN <<"4", "1">> ELSE <<"4", "2">>
CardInputs == {<<>>, <<"4", "1">>, <<"4", " ", "1">>, <<"4", "2">>, <<"4", "9">>}
CvvInputs == {"", "123", "999"}
MonthInputs == {"12", "11"}
YearInputs == {"29", "30"}
GeneratedCvv == "123"
GeneratedExpMonth == "12"
GeneratedExpYear == "29"

(* ------------------------------- state -------------------------------- *)

VARIABLES
  accounts,   \* the Account collection: account number -> document
  nextId,     \* the _id the next inserted Account document gets
  ledger,     \* the Transaction collection, in insertion order
  now,        \* Date.now()
  pc,         \* request -> where its handler is
  req,        \* request -> req.params and req.body
  doc,        \* request -> the handler's `account` document
  loc,        \* request -> the handler's other locals
  resp,       \* request -> the response sent
  accessed    \* request -> its handler has issued a store operation

vars == <<accounts, nextId, ledger, now, pc, req, doc, loc, resp, accessed>>


(* --------------------------- JavaScript values ------------------------- *)

\* A double: finite with value n, NaN, or Infinity.
Fin(i) == [t |-> "fin", n |-> i]
NaN == [t |-> "nan", n |-> 0]
Infinity == [t |-> "inf", n |-> 0]

\* Number(v)
ToNumber(v) ==
  CASE v.k = "number" -> Fin(v.n)
    [] v.k = "numstr" -> Fin(v.n)
    [] v.k = "null" -> Fin(0)
    [] v.k = "huge" -> Infinity
    [] OTHER -> NaN

\* Number.isFinite(x)
IsFinite(x) == x.t = "fin"

\* a variant that keeps the sign
Abs_Signed(n) == n

\* Math.abs(n)
Abs(n) == IF n < 0 THEN -n ELSE n

\* String(cardNumber).replace(/\s+/g, '')
cleanCardNumber(s) == SelectSeq(s, LAMBDA c : c # " ")

\* `POVY-${Date.now()}` and `POVY-CARD-${Date.now()}`
TransactionId(prefix, t) == [prefix |-> prefix, t |-> t]
NoTransactionId == [prefix |-> "", t |-> 0]

(* ------------------------------ documents ------------------------------ *)

NoCard == [cardNumber |-> <<>>, expMonth |-> "", expYear |-> "", cvv |-> ""]

\* generateCardForAccount: the card number is random; the model gives each
\* account number its own card number.
generateCardForAccount(a) ==
  [cardNumber |-> CardNumberOf(a), expMonth |-> GeneratedExpMonth,
   expYear |-> GeneratedExpYear, cvv |-> GeneratedCvv]

\* accountSchema; exists = FALSE is "no such document"
NoAccount ==
  [exists |-> FALSE, id |-> 0, balance |-> 0, currency |-> "", card |-> NoCard]

\* transactionSchema (description and merchantName are free text nothing
\* reads).  id is the document's _id, which MongoDB makes unique: a request
\* inserts at most one transaction, so its number serves.  createdAt is the
\* timestamp `timestamps: true` sets when the document is created.
Entry(id, a, type, amount, currency, source, txid, balanceAfter, createdAt) ==
  [id |-> id, accountNumber |-> a, type |-> type, amount |-> amount,
   currency |-> currency, source |-> source, transactionId |-> txid,
   balanceAfter |-> balanceAfter, createdAt |-> createdAt]

\* a hydrated Account document held by a handler; mod* are Mongoose's
\* modified paths
NoDoc ==
  [id |-> 0, accountNumber |-> "", balance |-> 0, currency |-> "",
   card |-> NoCard, modBalance |-> FALSE, modCurrency |-> FALSE]

Hydrate(a) ==
  [id |-> accounts[a].id, accountNumber |-> a, balance |-> accounts[a].balance,
   currency |-> accounts[a].currency, card |-> accounts[a].card,
   modBalance |-> FALSE, modCurrency |-> FALSE]

\* account.balance = v : the path is marked modified when the value changes
SetBalance(d, v) ==
  [d EXCEPT !.balance = v, !.modBalance = @ \/ (v # d.balance)]

\* account.currency = c
SetCurrency(d, c) ==
  [d EXCEPT !.currency = c, !.modCurrency = @ \/ (c # d.currency)]

\* Account.findOne({ accountNumber })
HasAccount(a) == a \in Accts /\ accounts[a].exists

\* Account.findOne({ 'card.cardNumber': c }): the accounts holding the card
CardHolders(c) == {a \in Accts : accounts[a].exists /\ accounts[a].card.cardNumber = c}

\* the stored document with a given _id, if any
StoredWithId(i) == {a \in Accts : accounts[a].exists /\ accounts[a].id = i}

(* --------------------------- handler locals ---------------------------- *)

NoReq ==
  [op |-> "none", accountNumber |-> "", cardNumber |-> <<>>, expMonth |-> "",
   expYear |-> "", cvv |-> "", amount |-> Undef, currency |-> "", balance |-> Undef,
   addBalance |-> Undef]

NoLoc == [status |-> "", transactionId |-> NoTransactionId, numericAmount |-> 0]

NoResp ==
  [code |-> 0, status |-> "", message |-> "", transactionId |-> NoTransactionId,
   amount |-> 0, currency |-> "", accountNumber |-> "", balance |-> 0,
   txs |-> <<>>]

\* res.status(code).json({ status: 'error', message }), of the payment handlers
Error(code, message) == [NoResp EXCEPT !.code = code, !.status = "error", !.message = message]

\* res.status(code).json({ message }), of the account handlers
Message(code, message) == [NoResp EXCEPT !.code = code, !.message = message]

\* res.json(account) / res.json(account.toObject())
AccountJson(code, d) ==
  [NoResp EXCEPT !.code = code, !.status = "ok", !.accountNumber = d.accountNumber,
                 !.balance = d.balance, !.currency = d.currency]

TypeOK ==
  /\ DOMAIN accounts = Accts
  /\ nextId \in 3..(NumReqs + 3)
  /\ Len(ledger) <= NumReqs + PageLimit + 3
  /\ now \in 0..MaxClock
  /\ pc \in [Reqs -> {"idle", "insert", "save", "record", "respond", "done"}]
  /\ accessed \in [Reqs -> BOOLEAN]

\* The collections outlive the process: the server starts on whatever
\* accounts earlier POST /api/accounts requests created (a balance >= 0, the
\* default currency), here with no transaction recorded yet.
Created(a, balance) ==
  [exists |-> TRUE, id |-> IF a = "001-00000001" THEN 1 ELSE 2, balance |-> balance,
   currency |-> "USD", card |-> generateCardForAccount(a)]

Init ==
  /\ accounts \in [Accts -> {NoAccount}] \cup
                  {[a \in Accts |-> Created(a, b[a])] : b \in [Accts -> 0..MaxAmount]} \cup
                  {[a \in Accts |-> IF a = x THEN Created(a, b) ELSE NoAccount] :
                     x \in Accts, b \in 0..MaxAmount}
  /\ nextId = 3
  /\ ledger = <<>>
  /\ now = 0
  /\ pc = [p \in Reqs |-> "idle"]
  /\ req = [p \in Reqs |-> NoReq]
  /\ doc = [p \in Reqs |-> NoDoc]
  /\ loc = [p \in Reqs |-> NoLoc]
  /\ resp = [p \in Reqs |-> NoResp]
  /\ accessed = [p \in Reqs |-> FALSE]

(* ------------------------------ requests ------------------------------- *)

\* Requests are numbered in the order they arrive.  Until its first store
\* operation a handler touches nothing another handler can see, so a request
\* arrives, is validated and has its first store operation take effect in
\* one step.
Arrives(p) == pc[p] = "idle" /\ \A q \in Reqs : q < p => pc[q] # "idle"

\* the handler of p is suspended at an await
InFlight(p) == pc[p] \notin {"idle", "done"}

\* the handler calls a method of the Account or the Transaction model
StoreAccessed(p) == accessed' = [accessed EXCEPT ![p] = TRUE]

\* the handler sends r and returns
Finish(p, r) ==
  /\ pc' = [pc EXCEPT ![p] = "done"]
  /\ resp' = [resp EXCEPT ![p] = r]
  /\ req' = [req EXCEPT ![p] = NoReq]
  /\ doc' = [doc EXCEPT ![p] = NoDoc]
  /\ loc' = [loc EXCEPT ![p] = NoLoc]

\* the handler of request r runs on to its next await, at label l
Await(p, l, r, d, v) ==
  /\ pc' = [pc EXCEPT ![p] = l]
  /\ req' = [req EXCEPT ![p] = r]
  /\ doc' = [doc EXCEPT ![p] = d]
  /\ loc' = [loc EXCEPT ![p] = v]
  /\ UNCHANGED resp

\* catch (err) { console.error(err); res.status(500).json(...) }
CatchResponse(op) ==
  CASE op = "create" -> Message(500, "No se pudo crear la cuenta.")
    [] op = "patch" -> Message(500, "No se pudo actualizar la cuenta.")
    [] op = "delete" -> Message(500, "No se pudo eliminar la cuenta.")
    [] op = "list" -> Message(500, "No se pudo obtener el historial de transacciones.")
    [] op = "pay" -> Error(500, "Error interno al procesar el pago.")
    [] OTHER -> Error(500, "Error interno al procesar el pago con tarjeta.")

(* ------------------------- POST /api/accounts -------------------------- *)

\* typeof initialBalance === 'number' && initialBalance >= 0 ? initialBalance : 10000
InitialBalance(v) == IF v.k = "number" /\ v.n >= 0 THEN v.n ELSE DefaultBalance

\* allowedCurrencies.includes(currency) ? currency : 'USD'
NormalizedCurrency(c) == IF c \in allowedCurrencies THEN c ELSE "USD"

InitialBalanceInputs == {Undef, NumStr(1)} \cup {Num(i) : i \in -1..MaxAmount}

\* The request arrives and generateUniqueAccountNumber settles: it returns a
\* number Account.exists did not find, or throws after ten draws that all
\* hit an existing account.
CreateAccount(p) ==
  /\ Arrives(p)
  /\ \E currency \in CurrencyInputs, initialBalance \in InitialBalanceInputs :
       LET r == [NoReq EXCEPT !.op = "create"]
           account == [NoDoc EXCEPT !.balance = InitialBalance(initialBalance),
                                    !.currency = NormalizedCurrency(currency)]
       IN
         \/ \E a \in Accts :
              /\ ~accounts[a].exists
              /\ Await(p, "insert", r, [account EXCEPT !.accountNumber = a], NoLoc)
         \/ /\ \E a \in Accts : accounts[a].exists
            /\ Finish(p, CatchResponse("create"))
  /\ UNCHANGED <<accounts, nextId, ledger, now>>
  /\ StoreAccessed(p)

\* Account.create(...) and res.status(201).json(account); the unique index on
\* accountNumber rejects a number taken since it was drawn
InsertAccount(p) ==
  /\ pc[p] = "insert"
  /\ LET a == doc[p].accountNumber IN
       IF accounts[a].exists
       THEN Finish(p, CatchResponse("create")) /\ UNCHANGED <<accounts, nextId>>
       ELSE /\ accounts' = [accounts EXCEPT ![a] =
                 [exists |-> TRUE, id |-> nextId, balance |-> doc[p].balance,
                  currency |-> doc[p].currency, card |-> generateCardForAccount(a)]]
            /\ nextId' = nextId + 1
            /\ Finish(p, AccountJson(201, doc[p]))
  /\ UNCHANGED <<ledger, now, accessed>>

(* ------------------ DELETE /api/accounts/:accountNumber ---------------- *)

\* a variant that deletes the account's transactions with it
DeleteAccount_Cascade(p) ==
  /\ Arrives(p)
  /\ \E a \in AcctInputs \ {""} :
       IF HasAccount(a)
       THEN /\ accounts' = [accounts EXCEPT ![a] = NoAccount]
            /\ ledger' = SelectSeq(ledger, LAMBDA e : e.accountNumber # a)
            /\ Finish(p, [NoResp EXCEPT !.code = 200,
                                        !.message = "Cuenta eliminada correctamente.",
                                        !.accountNumber = a])
       ELSE /\ Finish(p, Message(404, "Cuenta no encontrada."))
            /\ UNCHANGED <<accounts, ledger>>
  /\ UNCHANGED <<nextId, now>>
  /\ StoreAccessed(p)

\* the request arrives; Account.findOneAndDelete; the response
DeleteAccount(p) ==
  /\ Arrives(p)
  /\ \E a \in AcctInputs \ {""} :
       IF HasAccount(a)
       THEN /\ accounts' = [accounts EXCEPT ![a] = NoAccount]
            /\ Finish(p, [NoResp EXCEPT !.code = 200,
                                        !.message = "Cuenta eliminada correctamente.",
                                        !.accountNumber = a])
       ELSE /\ Finish(p, Message(404, "Cuenta no encontrada."))
            /\ UNCHANGED accounts
  /\ UNCHANGED <<nextId, ledger, now>>
  /\ StoreAccessed(p)

(* --------------------------- registerTransaction ----------------------- *)

\* currency || account.currency
EffectiveCurrency(c, account) == IF c # "" THEN c ELSE account.currency

\* a variant that records the balance the handler read instead of the one
\* it holds after its debit or top-up
EntryOf_BalanceRead(p) ==
  Entry(p, doc[p].accountNumber,
        IF req[p].op \in {"pay", "card"} \/ loc[p].numericAmount < 0
        THEN "debit" ELSE "credit",
        Abs(loc[p].numericAmount),
        IF req[p].op \in {"pay", "card"}
        THEN EffectiveCurrency(req[p].currency, doc[p]) ELSE doc[p].currency,
        IF req[p].op = "pay" THEN "account_payment"
        ELSE IF req[p].op = "card" THEN "card_payment" ELSE "manual_topup",
        loc[p].transactionId,
        IF req[p].op \in {"pay", "card"}
        THEN (IF loc[p].status = "approved"
              THEN doc[p].balance + loc[p].numericAmount ELSE doc[p].balance)
        ELSE doc[p].balance - loc[p].numericAmount,
        now)

\* the argument of registerTransaction at each of its three call sites
EntryOf(p) ==
  CASE req[p].op = "pay" ->
         Entry(p, doc[p].accountNumber, "debit", loc[p].numericAmount,
               EffectiveCurrency(req[p].currency, doc[p]), "account_payment",
               loc[p].transactionId, doc[p].balance, now)
    [] req[p].op = "card" ->
         Entry(p, doc[p].accountNumber, "debit", loc[p].numericAmount,
               EffectiveCurrency(req[p].currency, doc[p]), "card_payment",
               loc[p].transactionId, doc[p].balance, now)
    [] OTHER ->
         Entry(p, doc[p].accountNumber,
               IF loc[p].numericAmount >= 0 THEN "credit" ELSE "debit",
               Abs(loc[p].numericAmount), doc[p].currency, "manual_topup",
               NoTransactionId, doc[p].balance, now)

\* Transaction.create succeeds; the handler resumes after
\* `await registerTransaction(...)`
registerTransaction(p) ==
  /\ pc[p] = "record"
  /\ ledger' = Append(ledger, EntryOf(p))
  /\ pc' = [pc EXCEPT ![p] = "respond"]
  /\ UNCHANGED <<accounts, nextId, now, req, doc, loc, resp, accessed>>

\* a variant in which the rejection of Transaction.create reaches the
\* handler's catch block
registerTransactionFails_Thrown(p) ==
  /\ pc[p] = "record"
  /\ Finish(p, CatchResponse(req[p].op))
  /\ UNCHANGED <<accounts, nextId, ledger, now, accessed>>

\* Transaction.create throws; registerTransaction logs and swallows it
registerTransactionFails(p) ==
  /\ pc[p] = "record"
  /\ pc' = [pc EXCEPT ![p] = "respond"]
  /\ UNCHANGED <<accounts, nextId, ledger, now, req, doc, loc, resp, accessed>>

(* ------------------------------ account.save --------------------------- *)

\* what the handler does once `await account.save()` has resolved, up to its
\* next await
AfterSave(p) ==
  CASE req[p].op = "pay" ->
         Await(p, "record", req[p], doc[p],
               [loc[p] EXCEPT !.transactionId = TransactionId("POVY-", now)])
    [] req[p].op = "card" ->
         Await(p, "record", req[p], doc[p],
               [loc[p] EXCEPT !.transactionId = TransactionId("POVY-CARD-", now)])
    [] OTHER ->
         Await(p, IF req[p].addBalance.k # "undefined" THEN "record" ELSE "respond",
               req[p], doc[p], loc[p])

\* a variant whose update has no filter: it reaches every stored document
SaveWrite_Unfiltered(a, d) ==
  [x \in DOMAIN accounts |->
     IF accounts[x].exists
     THEN [accounts[x] EXCEPT !.balance = IF d.modBalance THEN d.balance ELSE @,
                              !.currency = IF d.modCurrency THEN d.currency ELSE @]
     ELSE accounts[x]]

\* the update save() sends: $set of the modified paths, on the document's _id
SaveWrite(a, d) ==
  [accounts EXCEPT ![a] =
     [@ EXCEPT !.balance = IF d.modBalance THEN d.balance ELSE @,
               !.currency = IF d.modCurrency THEN d.currency ELSE @]]

\* account.save(): Mongoose throws DocumentNotFoundError when no stored
\* document has the _id any more
Save(p) ==
  /\ pc[p] = "save"
  /\ IF StoredWithId(doc[p].id) = {}
     THEN Finish(p, CatchResponse(req[p].op)) /\ UNCHANGED accounts
     ELSE /\ accounts' = SaveWrite(CHOOSE a \in StoredWithId(doc[p].id) : TRUE, doc[p])
          /\ AfterSave(p)
  /\ UNCHANGED <<nextId, ledger, now, accessed>>

\* a variant in which the handler goes on after a rejected save()
AccountWriteFails_Swallowed(p) ==
  /\ pc[p] \in {"insert", "save"}
  /\ IF pc[p] = "save" THEN AfterSave(p) ELSE Finish(p, CatchResponse(req[p].op))
  /\ UNCHANGED <<accounts, nextId, ledger, now, accessed>>

\* Account.create or account.save() rejects (connection lost, ...): the
\* handler's catch block answers 500
AccountWriteFails(p) ==
  /\ pc[p] \in {"insert", "save"}
  /\ Finish(p, CatchResponse(req[p].op))
  /\ UNCHANGED <<accounts, nextId, ledger, now, accessed>>

\* The first store operation of a request that passed its synchronous
\* validation rejects: Account.findOne of a payment handler, ...
PaymentReadFails(p) ==
  /\ Arrives(p)
  /\ \E op \in {"pay", "card"} : Finish(p, CatchResponse(op))
  /\ UNCHANGED <<accounts, nextId, ledger, now>>
  /\ StoreAccessed(p)

\* ... or Account.exists, Account.findOne or Account.findOneAndDelete of an
\* account handler.
AdministrationReadFails(p) ==
  /\ Arrives(p)
  /\ \E op \in {"create", "patch", "delete"} : Finish(p, CatchResponse(op))
  /\ UNCHANGED <<accounts, nextId, ledger, now>>
  /\ StoreAccessed(p)

(* --------------------------- POST /api/payments ------------------------ *)

\* amount === undefined || amount === null
Missing(v) == v.k \in {"undefined", "null"}

\* a variant that lets a zero amount through
InvalidAmount_Negative(x) == ~IsFinite(x) \/ x.n < 0

\* !Number.isFinite(numericAmount) || numericAmount <= 0
InvalidAmount(x) == ~IsFinite(x) \/ x.n <= 0

\* variants of the comparison: faults the properties of the decision detect
Declined_Reversed(numericAmount, balance) == numericAmount < balance

Declined_Strict(numericAmount, balance) == numericAmount >= balance

\* if (numericAmount > account.balance) status = 'declined'
Declined(numericAmount, balance) == numericAmount > balance

\* The decision both payment handlers make on the document they loaded, and
\* what they do up to the next await: validation of the amount, approve or
\* decline, the in-memory debit and the call of save() when approved, the
\* transactionId and the call of registerTransaction when declined.
Authorize(p, r, account, prefix) ==
  LET numericAmount == ToNumber(r.amount) IN
    IF InvalidAmount(numericAmount)
    THEN Finish(p, Error(400, "Monto invalido."))
    ELSE IF Declined(numericAmount.n, account.balance)
         THEN Await(p, "record", r, account,
                    [status |-> "declined", numericAmount |-> numericAmount.n,
                     transactionId |-> TransactionId(prefix, now)])
         ELSE Await(p, "save", r, SetBalance(account, account.balance - numericAmount.n),
                    [status |-> "approved", numericAmount |-> numericAmount.n,
                     transactionId |-> NoTransactionId])

\* the request arrives; Account.findOne({ accountNumber }) resolves
PostPaymentOf(p, accountNumber, amount, currency) ==
  /\ Arrives(p)
  /\ LET r == [NoReq EXCEPT !.op = "pay", !.accountNumber = accountNumber,
                            !.amount = amount, !.currency = currency]
     IN
       IF accountNumber = "" \/ Missing(amount)
       THEN Finish(p, Error(400, "Faltan datos obligatorios: accountNumber y amount."))
       ELSE IF ~HasAccount(accountNumber)
       THEN Finish(p, Error(404, "Cuenta no encontrada."))
       ELSE Authorize(p, r, Hydrate(accountNumber), "POVY-")
  /\ UNCHANGED <<accounts, nextId, ledger, now>>
  /\ accessed' = [accessed EXCEPT ![p] = ~(accountNumber = "" \/ Missing(amount))]

PostPayment(p) ==
  \E accountNumber \in AcctInputs, amount \in AmountInputs, currency \in PayCurrencyInputs :
    PostPaymentOf(p, accountNumber, amount, currency)

(* ------------------------ POST /api/payments/card ---------------------- *)

\* a variant that leaves the cvv out of the comparison
CardMatches_NoCvv(card, expMonth, expYear, cvv) ==
  /\ card.expMonth = expMonth
  /\ card.expYear = expYear

\* the request's expMonth, expYear and cvv against the stored card
CardMatches(card, expMonth, expYear, cvv) ==
  /\ card.expMonth = expMonth
  /\ card.expYear = expYear
  /\ card.cvv = cvv

\* the request arrives; Account.findOne({ 'card.cardNumber': ... }) resolves
PostCardPaymentOf(p, cardNumber, expMonth, expYear, cvv, amount, currency) ==
  /\ Arrives(p)
  /\ LET r == [NoReq EXCEPT !.op = "card", !.cardNumber = cleanCardNumber(cardNumber),
                            !.expMonth = expMonth, !.expYear = expYear, !.cvv = cvv,
                            !.amount = amount, !.currency = currency]
     IN
       IF cardNumber = <<>> \/ expMonth = "" \/ expYear = "" \/ cvv = "" \/ Missing(amount)
       THEN Finish(p, Error(400, "Faltan datos obligatorios para el pago con tarjeta."))
       ELSE IF CardHolders(r.cardNumber) = {}
       THEN Finish(p, Error(404, "Tarjeta no encontrada."))
       ELSE LET account == Hydrate(CHOOSE a \in CardHolders(r.cardNumber) : TRUE) IN
              IF ~CardMatches(account.card, expMonth, expYear, cvv)
              THEN Finish(p, Error(400, "Datos de tarjeta invalidos."))
              ELSE Authorize(p, r, account, "POVY-CARD-")
  /\ UNCHANGED <<accounts, nextId, ledger, now>>
  /\ accessed' = [accessed EXCEPT ![p] =
       ~(cardNumber = <<>> \/ expMonth = "" \/ expYear = "" \/ cvv = "" \/ Missing(amount))]

PostCardPayment(p) ==
  \E cardNumber \in CardInputs, expMonth \in MonthInputs, expYear \in YearInputs,
     cvv \in CvvInputs, amount \in AmountInputs, currency \in PayCurrencyInputs :
    PostCardPaymentOf(p, cardNumber, expMonth, expYear, cvv, amount, currency)

(* ------------------- PATCH /api/accounts/:accountNumber ---------------- *)

BalanceInputs == {Undef, Null, Text, Num(-1), NumStr(1), Num(MaxAmount)}
AddBalanceInputs == {Undef, Text} \cup {Num(i) : i \in (-MaxAmount)..1}

\* a variant that takes null for "not supplied", as the payment handlers do
BothSupplied_NonNull(balance, addBalance) == ~Missing(balance) /\ ~Missing(addBalance)

\* balance !== undefined && addBalance !== undefined
BothSupplied(balance, addBalance) == balance.k # "undefined" /\ addBalance.k # "undefined"

\* the request arrives; Account.findOne resolves; the handler runs to
\* `await account.save()` or to an early return
PatchAccountOf(p, accountNumber, currency, balance, addBalance) ==
  /\ Arrives(p)
  /\ LET r == [NoReq EXCEPT !.op = "patch", !.accountNumber = accountNumber,
                            !.currency = currency, !.balance = balance,
                            !.addBalance = addBalance]
         loaded == Hydrate(accountNumber)
         account == IF currency # "" THEN SetCurrency(loaded, currency) ELSE loaded
         numericBalance == ToNumber(balance)
         numericAdd == ToNumber(addBalance)
     IN
       IF ~HasAccount(accountNumber)
       THEN Finish(p, Message(404, "Cuenta no encontrada."))
       ELSE IF currency # "" /\ currency \notin allowedCurrencies
       THEN Finish(p, Message(400, "Moneda no soportada. Usa USD, MXN o JPY."))
       ELSE IF BothSupplied(balance, addBalance)
       THEN Finish(p, Message(400, "Usa balance (establecer) o addBalance (sumar), no ambos."))
       ELSE IF balance.k # "undefined"
       THEN IF ~IsFinite(numericBalance) \/ numericBalance.n < 0
            THEN Finish(p, Message(400, "Saldo invalido."))
            ELSE Await(p, "save", r, SetBalance(account, numericBalance.n), NoLoc)
       ELSE IF addBalance.k # "undefined"
       THEN IF ~IsFinite(numericAdd)
            THEN Finish(p, Message(400, "Monto de recarga invalido."))
            ELSE Await(p, "save", r, SetBalance(account, account.balance + numericAdd.n),
                       [NoLoc EXCEPT !.numericAmount = numericAdd.n])
       ELSE Await(p, "save", r, account, NoLoc)
  /\ UNCHANGED <<accounts, nextId, ledger, now>>
  /\ StoreAccessed(p)

PatchAccount(p) ==
  \E accountNumber \in AcctInputs \ {""}, currency \in CurrencyInputs,
     balance \in BalanceInputs, addBalance \in AddBalanceInputs :
    PatchAccountOf(p, accountNumber, currency, balance, addBalance)

(* -------------- GET /api/accounts/:accountNumber/transactions ---------- *)

\* variants of the query: oldest first, and without the account filter
Newest_Oldest(M) == {i \in M : \A j \in M : ledger[i].createdAt <= ledger[j].createdAt}

\* Transaction.find({ accountNumber })
Matching(accountNumber) == {i \in DOMAIN ledger : ledger[i].accountNumber = accountNumber}

\* the entries of M that sort({ createdAt: -1 }) may put first
Newest(M) == {i \in M : \A j \in M : ledger[j].createdAt <= ledger[i].createdAt}

\* .sort({ createdAt: -1 }).limit(n): every list the query may return.
\* MongoDB fixes no order among documents with equal createdAt.
RECURSIVE SortedLimited(_, _)
SortedLimited(M, n) ==
  IF M = {} \/ n = 0
  THEN {<<>>}
  ELSE UNION {{<<ledger[i]>> \o t : t \in SortedLimited(M \ {i}, n - 1)} : i \in Newest(M)}

\* the request arrives; the query resolves; res.json(txs)
ListTransactionsOf(p, accountNumber) ==
  /\ Arrives(p)
  /\ \E txs \in SortedLimited(Matching(accountNumber), PageLimit) :
       Finish(p, [NoResp EXCEPT !.code = 200, !.accountNumber = accountNumber,
                               !.txs = txs])
  /\ UNCHANGED <<accounts, nextId, ledger, now>>
  /\ StoreAccessed(p)

ListTransactions(p) ==
  \E accountNumber \in AcctInputs \ {""} : ListTransactionsOf(p, accountNumber)

\* the query rejects
ListReadFails(p) ==
  /\ Arrives(p)
  /\ Finish(p, CatchResponse("list"))
  /\ UNCHANGED <<accounts, nextId, ledger, now>>
  /\ StoreAccessed(p)

(* -------------------------------- clock -------------------------------- *)

\* a millisecond passes
Tick ==
  /\ now < MaxClock
  /\ now' = now + 1
  /\ UNCHANGED <<accounts, nextId, ledger, pc, req, doc, loc, resp, accessed>>

(* ------------------------------ responses ------------------------------ *)

\* the res.json(...) that ends the payment handlers and the PATCH handler
ResponseOf(p) ==
  IF req[p].op \in {"pay", "card"}
  THEN [code |-> 200, status |-> loc[p].status,
        message |-> IF loc[p].status = "approved" THEN "Pago aprobado."
                    ELSE "Fondos insuficientes en la cuenta.",
        transactionId |-> loc[p].transactionId, amount |-> loc[p].numericAmount,
        currency |-> EffectiveCurrency(req[p].currency, doc[p]),
        accountNumber |-> doc[p].accountNumber, balance |-> doc[p].balance]
  ELSE AccountJson(200, doc[p])

Respond(p) ==
  /\ pc[p] = "respond"
  /\ Finish(p, ResponseOf(p))
  /\ UNCHANGED <<accounts, nextId, ledger, now, accessed>>

(* ---------------------------- specifications --------------------------- *)

Payment(p) ==
  \/ PostPayment(p)
  \/ PostCardPayment(p)

Administration(p) ==
  \/ CreateAccount(p)
  \/ DeleteAccount(p)
  \/ PatchAccount(p)

Resume(p) ==
  \/ Save(p)
  \/ registerTransaction(p)
  \/ Respond(p)

Next ==
  \/ \E p \in Reqs : Payment(p)
  \/ \E p \in Reqs : Administration(p)
  \/ \E p \in Reqs : InsertAccount(p)
  \/ \E p \in Reqs : Resume(p)
  \/ \E p \in Reqs : registerTransactionFails(p)
  \/ \E p \in Reqs : PaymentReadFails(p)
  \/ \E p \in Reqs : AdministrationReadFails(p)
  \/ \E p \in Reqs : AccountWriteFails(p)
  \/ \E p \in Reqs : ListTransactions(p)
  \/ \E p \in Reqs : ListReadFails(p)
  \/ Tick

\* requests arrive at any time and interleave at every await; any store
\* operation may fail
Spec == Init /\ [][Next]_vars

\* One request at a time, on an Account Store that answers: a request
\* arrives only when no handler is suspended.  The ledger write may still
\* fail, which the handlers are written to survive.
Alone == \A q \in Reqs : ~InFlight(q)

NextSeq ==
  \/ \E p \in Reqs : Alone /\ Payment(p)
  \/ \E p \in Reqs : Alone /\ Administration(p)
  \/ \E p \in Reqs : InsertAccount(p)
  \/ \E p \in Reqs : Resume(p)
  \/ \E p \in Reqs : registerTransactionFails(p)

SpecSeq == Init /\ [][NextSeq]_vars

\* Account administration only (create, adjust, delete), one request at a
\* time, on an Account Store that answers; the ledger write may fail.
NextAdm ==
  \/ \E p \in Reqs : Alone /\ Administration(p)
  \/ \E p \in Reqs : InsertAccount(p)
  \/ \E p \in Reqs : Resume(p)
  \/ \E p \in Reqs : registerTransactionFails(p)

SpecAdm == Init /\ [][NextAdm]_vars

\* Payment traffic only, concurrent, on accounts that all hold MaxAmount;
\* any store operation may fail.
InitPay ==
  /\ accounts = [a \in Accts |-> Created(a, MaxAmount)]
  /\ nextId = 3
  /\ ledger = <<>>
  /\ now = 0
  /\ pc = [p \in Reqs |-> "idle"]
  /\ req = [p \in Reqs |-> NoReq]
  /\ doc = [p \in Reqs |-> NoDoc]
  /\ loc = [p \in Reqs |-> NoLoc]
  /\ resp = [p \in Reqs |-> NoResp]
  /\ accessed = [p \in Reqs |-> FALSE]

NextPay ==
  \/ \E p \in Reqs : Payment(p)
  \/ \E p \in Reqs : Resume(p)
  \/ \E p \in Reqs : registerTransactionFails(p)
  \/ \E p \in Reqs : PaymentReadFails(p)
  \/ \E p \in Reqs : AccountWriteFails(p)

SpecPay == InitPay /\ [][NextPay]_vars

\* Payment traffic as in SpecPay, with the clock running: any number of
\* milliseconds up to MaxClock, none included, may pass between two steps.
NextClock ==
  \/ NextPay
  \/ Tick

SpecClock == InitPay /\ [][NextClock]_vars

\* Account payments and addBalance adjustments, interleaved at every await,
\* with no failure of the store: PATCH bodies carry addBalance only.
TopUp(p) ==
  \E accountNumber \in AcctInputs \ {""}, addBalance \in AddBalanceInputs \ {Undef} :
    PatchAccountOf(p, accountNumber, "", Undef, addBalance)

NextTopUp ==
  \/ \E p \in Reqs : PostPayment(p)
  \/ \E p \in Reqs : TopUp(p)
  \/ \E p \in Reqs : Resume(p)

SpecTopUp == InitPay /\ [][NextTopUp]_vars

\* History queries among account payments, concurrent, with the clock
\* running, on a ledger that earlier payments have filled: declined
\* payments of MaxAmount + 1, one per millisecond up to the start (the two
\* oldest in the same millisecond), all but every 25th on the first account.
\* The ledger starts far below, just below and just above the page limit
\* for that account.
PastTime(i, n) == (IF i = 1 THEN 2 ELSE i) - n - 1

PastEntry(i, n) ==
  Entry(0 - i, IF i % 25 = 0 THEN "001-00000002" ELSE "001-00000001", "debit",
        MaxAmount + 1, "USD", "account_payment", TransactionId("POVY-", PastTime(i, n)),
        MaxAmount, PastTime(i, n))

PastLengths == {1, PageLimit + 1, PageLimit + 3}

InitList ==
  /\ accounts = [a \in Accts |-> Created(a, MaxAmount)]
  /\ nextId = 3
  /\ \E n \in PastLengths : ledger = [i \in 1..n |-> PastEntry(i, n)]
  /\ now = 0
  /\ pc = [p \in Reqs |-> "idle"]
  /\ req = [p \in Reqs |-> NoReq]
  /\ doc = [p \in Reqs |-> NoDoc]
  /\ loc = [p \in Reqs |-> NoLoc]
  /\ resp = [p \in Reqs |-> NoResp]
  /\ accessed = [p \in Reqs |-> FALSE]

NextList ==
  \/ \E p \in Reqs : ListTransactions(p)
  \/ \E p \in Reqs : ListReadFails(p)
  \/ \E p \in Reqs : PostPayment(p)
  \/ \E p \in Reqs : Resume(p)
  \/ \E p \in Reqs : registerTransactionFails(p)
  \/ Tick

SpecList == InitList /\ [][NextList]_vars

\* Account payments and adjustments one at a time, each running to its
\* response before the next arrives, with no failure of the store, on a
\* ledger that earlier payments have filled.
NextAudit ==
  \/ \E p \in Reqs : Alone /\ PostPayment(p)
  \/ \E p \in Reqs : Alone /\ PatchAccount(p)
  \/ \E p \in Reqs : Resume(p)

SpecAudit == InitList /\ [][NextAudit]_vars

\* Payments, adjustments, deletions and history queries, concurrent, on
\* accounts that all hold MaxAmount; account writes and ledger writes may
\* fail.
NextMix ==
  \/ \E p \in Reqs : Payment(p)
  \/ \E p \in Reqs : PatchAccount(p)
  \/ \E p \in Reqs : DeleteAccount(p)
  \/ \E p \in Reqs : ListTransactions(p)
  \/ \E p \in Reqs : Resume(p)
  \/ \E p \in Reqs : registerTransactionFails(p)
  \/ \E p \in Reqs : AccountWriteFails(p)

SpecMix == InitPay /\ [][NextMix]_vars

(* ------------------------------- claims -------------------------------- *)

\* request p is a payment attempt whose handler is suspended
PaymentInFlight(p) == InFlight(p) /\ req[p].op \in {"pay", "card"}

\* the step in which the handler of p sends its response
Completes(p) == pc[p] # "done" /\ pc'[p] = "done"

\* the ledger entries request p inserted
EntriesOf(l, p) == {i \in DOMAIN l : l[i].id = p}

\* the amounts of the payment attempts 1..n on account a answered approved
RECURSIVE ApprovedUpTo(_, _)
ApprovedUpTo(a, n) ==
  IF n = 0 THEN 0
  ELSE ApprovedUpTo(a, n - 1) +
       (IF resp[n].status = "approved" /\ resp[n].accountNumber = a
        THEN resp[n].amount ELSE 0)

\* C1: whatever the interleaving of the payment attempts on an account that
\* starts with balance MaxAmount, the amounts of the attempts answered
\* approved sum to at most MaxAmount and the stored balance is never
\* negative.
C1_ApprovedWithinBalance ==
  \A a \in Accts :
    /\ ApprovedUpTo(a, NumReqs) <= MaxAmount
    /\ accounts[a].exists => accounts[a].balance >= 0

\* C2: every stored account has a balance >= 0, in every reachable state.
C2_BalanceNeverNegative ==
  \A a \in Accts : accounts[a].exists => accounts[a].balance >= 0

(* C3, C4: one payment attempt running alone (SpecSeq) *)

\* the number a request's amount stands for, when it is a valid amount
ValidAmount(amount) ==
  ~Missing(amount) /\ IsFinite(ToNumber(amount)) /\ ToNumber(amount).n > 0

\* the account holding the card a request names
HolderOf(cardNumber) == CHOOSE a \in CardHolders(cleanCardNumber(cardNumber)) : TRUE

\* p arrives as a payment of `amount` on the existing account a, by account
\* number or by a's card with the right expiry and cvv
PaymentArrives(p, a, amount) ==
  \/ \E currency \in PayCurrencyInputs : PostPaymentOf(p, a, amount, currency)
  \/ \E cardNumber \in CardInputs \ {<<>>}, currency \in PayCurrencyInputs :
       /\ CardHolders(cleanCardNumber(cardNumber)) # {}
       /\ HolderOf(cardNumber) = a
       /\ PostCardPaymentOf(p, cardNumber, accounts[a].card.expMonth,
                            accounts[a].card.expYear, accounts[a].card.cvv,
                            amount, currency)

C3_Arrival ==
  \A p \in Reqs : Arrives(p) /\ pc'[p] # "idle" =>
    \A a \in Accts, amount \in AmountInputs :
      (HasAccount(a) /\ ValidAmount(amount) /\ ToNumber(amount).n > accounts[a].balance) =>
        (PaymentArrives(p, a, amount) =>
           /\ pc'[p] = "record"
           /\ loc'[p].status = "declined"
           /\ doc'[p].accountNumber = a
           /\ doc'[p].balance = accounts[a].balance
           /\ accounts' = accounts)

C3_InFlight ==
  \A p \in Reqs : PaymentInFlight(p) /\ loc[p].status = "declined" =>
    /\ pc[p] \in {"record", "respond"}
    /\ HasAccount(doc[p].accountNumber)
    /\ accounts[doc[p].accountNumber].balance = doc[p].balance
    /\ loc[p].numericAmount > doc[p].balance

C3_Response ==
  \A p \in Reqs : Completes(p) /\ PaymentInFlight(p) /\ loc[p].status = "declined" =>
    /\ resp'[p].code = 200
    /\ resp'[p].status = "declined"
    /\ resp'[p].balance = accounts[doc[p].accountNumber].balance
    /\ accounts' = accounts

\* C3: a payment attempt running alone on an existing account with stored
\* balance B and a valid amount A > B is declined with a normal response
\* (code 200, status declined, remainingBalance B), and no step of it
\* writes the account: the stored balance stays B.
C3_DeclinedLeavesBalance ==
  /\ []C3_InFlight
  /\ [][C3_Arrival /\ C3_Response]_vars

C3_Witness ==
  \E p \in Reqs :
    /\ resp[p].code = 200
    /\ resp[p].status = "declined"
    /\ HasAccount(resp[p].accountNumber)
    /\ accounts[resp[p].accountNumber].balance = resp[p].balance
    /\ resp[p].amount > resp[p].balance

C4_Arrival ==
  \A p \in Reqs : Arrives(p) /\ pc'[p] # "idle" =>
    \A a \in Accts, amount \in AmountInputs :
      (HasAccount(a) /\ ValidAmount(amount) /\ ToNumber(amount).n <= accounts[a].balance) =>
        (PaymentArrives(p, a, amount) =>
           /\ pc'[p] = "save"
           /\ loc'[p].status = "approved"
           /\ loc'[p].numericAmount = ToNumber(amount).n
           /\ doc'[p].accountNumber = a
           /\ doc'[p].balance = accounts[a].balance - ToNumber(amount).n
           /\ accounts' = accounts)

C4_InFlight ==
  \A p \in Reqs : PaymentInFlight(p) /\ loc[p].status = "approved" =>
    LET a == doc[p].accountNumber IN
      /\ HasAccount(a)
      /\ loc[p].numericAmount > 0
      /\ pc[p] = "save" =>
           /\ accounts[a].balance = doc[p].balance + loc[p].numericAmount
           /\ accounts[a].balance > 0
           /\ loc[p].numericAmount <= accounts[a].balance
      /\ pc[p] # "save" => accounts[a].balance = doc[p].balance

C4_Save ==
  \A p \in Reqs :
    (PaymentInFlight(p) /\ pc[p] = "save" /\ pc'[p] # "save") =>
      LET a == doc[p].accountNumber IN
        /\ pc'[p] = "record"
        /\ accounts'[a].balance = accounts[a].balance - loc[p].numericAmount

C4_Response ==
  \A p \in Reqs : Completes(p) /\ PaymentInFlight(p) /\ loc[p].status = "approved" =>
    /\ resp'[p].code = 200
    /\ resp'[p].status = "approved"
    /\ resp'[p].amount = loc[p].numericAmount
    /\ resp'[p].balance = accounts'[doc[p].accountNumber].balance
    /\ accounts' = accounts

\* C4: a payment attempt running alone on an existing account with stored
\* balance B and amount A, 0 < A <= B, is approved, its save takes the stored
\* balance from B to B - A, and the response carries status approved and
\* remainingBalance B - A (A = B included, which leaves 0); an approved
\* attempt always found a stored balance > 0.
C4_ApprovedDebitsExactly ==
  /\ []C4_InFlight
  /\ [][C4_Arrival /\ C4_Save /\ C4_Response]_vars

\* an attempt for the whole balance was approved and left 0
C4_Witness ==
  \E p \in Reqs :
    /\ resp[p].code = 200
    /\ resp[p].status = "approved"
    /\ resp[p].amount = MaxAmount
    /\ resp[p].balance = 0
    /\ HasAccount(resp[p].accountNumber)
    /\ accounts[resp[p].accountNumber].balance = 0

(* C5: the ledger entry of a payment attempt (SpecPay) *)

PaymentCompletes(p) ==
  Completes(p) /\ resp'[p].code = 200 /\ resp'[p].status \in {"approved", "declined"}

PaymentSource(op) == IF op = "pay" THEN "account_payment" ELSE "card_payment"

\* C5 as stated: every payment attempt that completes approved or declined
\* has exactly one ledger entry, of type debit with the requested amount and
\* the handler's source, whose balanceAfter is the account's stored balance
\* when the attempt completes.
C5_ExactlyOneEntryWithStoredBalance ==
  [][\A p \in Reqs : PaymentCompletes(p) =>
       /\ Cardinality(EntriesOf(ledger', p)) = 1
       /\ \A i \in EntriesOf(ledger', p) :
            /\ ledger'[i].type = "debit"
            /\ ledger'[i].amount = resp'[p].amount
            /\ ledger'[i].source = PaymentSource(req[p].op)
            /\ ledger'[i].balanceAfter = accounts'[resp'[p].accountNumber].balance]_vars

C5_InFlight ==
  \A p \in Reqs :
    /\ Cardinality(EntriesOf(ledger, p)) <= 1
    /\ pc[p] \in {"idle", "save", "record"} => EntriesOf(ledger, p) = {}

C5_Record ==
  \A p \in Reqs : (PaymentInFlight(p) /\ pc[p] = "record" /\ pc'[p] # "record") =>
    /\ pc'[p] = "respond"
    /\ loc[p].status \in {"approved", "declined"}
    /\ \/ ledger' = ledger
       \/ ledger' = Append(ledger,
            [id |-> p, accountNumber |-> doc[p].accountNumber, type |-> "debit",
             amount |-> loc[p].numericAmount,
             currency |-> IF req[p].currency # "" THEN req[p].currency
                          ELSE doc[p].currency,
             source |-> PaymentSource(req[p].op),
             transactionId |-> loc[p].transactionId,
             balanceAfter |-> doc[p].balance,
             createdAt |-> now])

C5_OnlyRecorded ==
  ledger' # ledger => \E p \in Reqs : pc[p] = "record" /\ pc'[p] = "respond"

C5_Response ==
  \A p \in Reqs : PaymentCompletes(p) =>
    /\ pc[p] = "respond"
    /\ ledger' = ledger
    /\ \A i \in EntriesOf(ledger', p) :
         /\ ledger'[i].accountNumber = resp'[p].accountNumber
         /\ ledger'[i].type = "debit"
         /\ ledger'[i].amount = resp'[p].amount
         /\ ledger'[i].source = PaymentSource(req[p].op)
         /\ ledger'[i].transactionId = resp'[p].transactionId
         /\ ledger'[i].balanceAfter = resp'[p].balance

\* C5 (amended): a payment attempt that completes approved or declined has
\* at most one ledger entry, none before its recording step, and exactly the
\* one its recording step appends unless that write failed; the entry is for
\* the attempt's account, of type debit, with the requested amount, the
\* handler's source and the attempt's transactionId, and its balanceAfter is
\* the remainingBalance the attempt returns (the balance the attempt itself
\* read or stored), whatever other requests have written since.
C5_AtMostOneEntryWithReturnedBalance ==
  /\ []C5_InFlight
  /\ [][C5_Record /\ C5_OnlyRecorded /\ C5_Response]_vars

\* an approved attempt completed with its entry in the ledger, while the
\* stored balance is no longer the entry's balanceAfter
C5_Witness ==
  \E p \in Reqs : \E i \in EntriesOf(ledger, p) :
    /\ resp[p].code = 200
    /\ resp[p].status = "approved"
    /\ ledger[i].balanceAfter = resp[p].balance
    /\ ledger[i].amount = resp[p].amount
    /\ accounts[resp[p].accountNumber].balance # resp[p].balance

(* C6: card data that does not match the stored card (SpecPay) *)

AuthenticationFailure == Error(400, "Datos de tarjeta invalidos.")

C6_Arrival ==
  \A p \in Reqs : Arrives(p) /\ pc'[p] # "idle" =>
    \A cardNumber \in CardInputs \ {<<>>} :
      CardHolders(cleanCardNumber(cardNumber)) # {} =>
        LET card == accounts[HolderOf(cardNumber)].card IN
          \A expMonth \in MonthInputs, expYear \in YearInputs, cvv \in CvvInputs \ {""} :
            (expMonth # card.expMonth \/ expYear # card.expYear \/ cvv # card.cvv) =>
              \A amount \in AmountInputs \ {Undef, Null}, currency \in PayCurrencyInputs :
                PostCardPaymentOf(p, cardNumber, expMonth, expYear, cvv, amount, currency) =>
                  /\ pc'[p] = "done"
                  /\ resp'[p] = AuthenticationFailure
                  /\ accounts' = accounts
                  /\ ledger' = ledger

C6_NotFound ==
  \A p \in Reqs : Arrives(p) /\ pc'[p] # "idle" =>
    \A cardNumber \in CardInputs \ {<<>>} :
      CardHolders(cleanCardNumber(cardNumber)) = {} =>
        \A amount \in AmountInputs \ {Undef, Null} :
          PostCardPaymentOf(p, cardNumber, GeneratedExpMonth, GeneratedExpYear,
                            GeneratedCvv, amount, "") =>
            /\ resp'[p].code = 404
            /\ resp'[p] # AuthenticationFailure

C6_Refused ==
  \A p \in Reqs : resp[p] = AuthenticationFailure =>
    /\ pc[p] = "done"
    /\ EntriesOf(ledger, p) = {}

\* C6: a card payment that names the card number of a stored account with
\* an expMonth, expYear or cvv other than the stored one is answered with the
\* authentication failure (400 "Datos de tarjeta invalidos."), which is not
\* the answer given when no account holds the card number (404); it goes no
\* further (never approved or declined), no account is written and no ledger
\* entry is ever created for it, whatever the balance and the amount.
C6_CardMismatchRefused ==
  /\ []C6_Refused
  /\ [][C6_Arrival /\ C6_NotFound]_vars

C6_Witness ==
  \E p \in Reqs :
    /\ resp[p] = AuthenticationFailure
    /\ \A a \in Accts : accounts[a].exists /\ accounts[a].balance = MaxAmount
    /\ ledger = <<>>

(* C7: a failed ledger write (SpecPay) *)

\* the recording step of a payment, whether or not its write succeeds,
\* changes nothing but the ledger and resumes the handler
C7_Record ==
  \A p \in Reqs : (PaymentInFlight(p) /\ pc[p] = "record" /\ pc'[p] # "record") =>
    /\ pc' = [pc EXCEPT ![p] = "respond"]
    /\ ledger' \in {ledger, Append(ledger, EntryOf(p))}
    /\ UNCHANGED <<accounts, req, doc, loc, resp>>

\* the response is made of what the handler decided before recording
C7_Response ==
  \A p \in Reqs : (PaymentInFlight(p) /\ pc[p] = "respond" /\ pc'[p] # "respond") =>
    /\ pc'[p] = "done"
    /\ resp'[p].code = 200
    /\ resp'[p].status = loc[p].status
    /\ resp'[p].balance = doc[p].balance
    /\ resp'[p].amount = loc[p].numericAmount
    /\ resp'[p].transactionId = loc[p].transactionId
    /\ UNCHANGED <<accounts, ledger>>

C7_Decided ==
  \A p \in Reqs : PaymentInFlight(p) /\ pc[p] \in {"record", "respond"} =>
    loc[p].status \in {"approved", "declined"}

\* C7: when the ledger write of a payment attempt fails, the handler goes on
\* exactly as after a successful write (same request, document, decision and
\* account store; only the ledger differs) and then answers 200 with the
\* status and remainingBalance decided before the write: the failure never
\* becomes an error result.
C7_LedgerFailureSwallowed ==
  /\ []C7_Decided
  /\ [][C7_Record /\ C7_Response]_vars

\* an approved payment answered 200 although no entry of it was written
C7_Witness ==
  \E p \in Reqs :
    /\ resp[p].code = 200
    /\ resp[p].status = "approved"
    /\ EntriesOf(ledger, p) = {}
    /\ accounts[resp[p].accountNumber].balance = resp[p].balance

(* C8, C9: PATCH /api/accounts/:accountNumber (SpecAdm) *)

AdjustInFlight(p) == InFlight(p) /\ req[p].op = "patch"

BothRejected == Message(400, "Usa balance (establecer) o addBalance (sumar), no ambos.")

C8_Arrival ==
  \A p \in Reqs : Arrives(p) /\ pc'[p] # "idle" =>
    \A balance \in BalanceInputs \ {Undef}, addBalance \in AddBalanceInputs \ {Undef} :
      \A accountNumber \in AcctInputs \ {""}, currency \in CurrencyInputs :
        PatchAccountOf(p, accountNumber, currency, balance, addBalance) =>
          /\ pc'[p] = "done"
          /\ resp'[p].code \in {400, 404}
          /\ (HasAccount(accountNumber) /\ currency \in allowedCurrencies \cup {""})
               => resp'[p] = BothRejected
          /\ accounts' = accounts
          /\ ledger' = ledger

C8_Refused ==
  \A p \in Reqs : resp[p] = BothRejected =>
    /\ pc[p] = "done"
    /\ EntriesOf(ledger, p) = {}

\* C8: an adjustBalance request that supplies both balance and addBalance
\* is rejected (400; or 404 / 400 on the checks made before, for an unknown
\* account or an unsupported currency), it goes no further, and it leaves
\* every stored account (balance and currency, also when the request carried
\* a supported currency) and the ledger as they were.
C8_BothRejectedUnchanged ==
  /\ []C8_Refused
  /\ [][C8_Arrival]_vars

\* the rejection was given on an existing account still holding the
\* currency it was created with
C8_Witness ==
  \E p \in Reqs :
    /\ resp[p] = BothRejected
    /\ \E a \in Accts : accounts[a].exists /\ accounts[a].currency = "USD"
    /\ ledger = <<>>

\* the signed amount of a top-up request
Delta(p) == ToNumber(req[p].addBalance).n

TopUpInFlight(p) == AdjustInFlight(p) /\ req[p].addBalance.k # "undefined"

TopUpCompletes(p) == Completes(p) /\ TopUpInFlight(p) /\ resp'[p].code = 200

\* C9 as stated: a successful addBalance = d request has appended exactly
\* one ledger entry (credit if d >= 0 else debit, amount |d|, manual_topup,
\* no transactionId, balanceAfter B + d) and the stored balance is B + d.
C9_ExactlyOneTopUpEntry ==
  [][\A p \in Reqs : TopUpCompletes(p) =>
       /\ accounts'[doc[p].accountNumber].balance = resp'[p].balance
       /\ Cardinality(EntriesOf(ledger', p)) = 1
       /\ \A i \in EntriesOf(ledger', p) :
            /\ ledger'[i].type = (IF Delta(p) >= 0 THEN "credit" ELSE "debit")
            /\ ledger'[i].amount = (IF Delta(p) >= 0 THEN Delta(p) ELSE -Delta(p))
            /\ ledger'[i].source = "manual_topup"
            /\ ledger'[i].transactionId = NoTransactionId
            /\ ledger'[i].balanceAfter = resp'[p].balance]_vars

C9_Arrival ==
  \A p \in Reqs : Arrives(p) /\ pc'[p] # "idle" =>
    \A a \in Accts, addBalance \in AddBalanceInputs \ {Undef} :
      (HasAccount(a) /\ IsFinite(ToNumber(addBalance))) =>
        \A currency \in CurrencyInputs \cap (allowedCurrencies \cup {""}) :
          PatchAccountOf(p, a, currency, Undef, addBalance) =>
            /\ pc'[p] = "save"
            /\ req'[p].addBalance = addBalance
            /\ doc'[p].accountNumber = a
            /\ doc'[p].balance = accounts[a].balance + ToNumber(addBalance).n
            /\ accounts' = accounts

C9_InFlight ==
  \A p \in Reqs : TopUpInFlight(p) =>
    LET a == doc[p].accountNumber IN
      /\ HasAccount(a)
      /\ IsFinite(ToNumber(req[p].addBalance))
      /\ pc[p] = "save" => accounts[a].balance + Delta(p) = doc[p].balance
      /\ pc[p] # "save" => accounts[a].balance = doc[p].balance
      /\ pc[p] \in {"save", "record"} => EntriesOf(ledger, p) = {}
      /\ Cardinality(EntriesOf(ledger, p)) <= 1

C9_Save ==
  \A p \in Reqs : (TopUpInFlight(p) /\ pc[p] = "save" /\ pc'[p] # "save") =>
    LET a == doc[p].accountNumber IN
      /\ pc'[p] = "record"
      /\ accounts'[a].balance = accounts[a].balance + Delta(p)
      /\ ledger' = ledger

C9_Record ==
  \A p \in Reqs : (TopUpInFlight(p) /\ pc[p] = "record" /\ pc'[p] # "record") =>
    LET a == doc[p].accountNumber IN
      /\ pc'[p] = "respond"
      /\ accounts' = accounts
      /\ \/ ledger' = ledger
         \/ ledger' = Append(ledger,
              [id |-> p, accountNumber |-> a,
               type |-> IF Delta(p) >= 0 THEN "credit" ELSE "debit",
               amount |-> IF Delta(p) >= 0 THEN Delta(p) ELSE -Delta(p),
               currency |-> accounts[a].currency,
               source |-> "manual_topup",
               transactionId |-> NoTransactionId,
               balanceAfter |-> accounts[a].balance,
               createdAt |-> now])

C9_Response ==
  \A p \in Reqs : (TopUpInFlight(p) /\ pc[p] = "respond" /\ pc'[p] # "respond") =>
    /\ resp'[p].code = 200
    /\ resp'[p].balance = accounts'[doc[p].accountNumber].balance
    /\ accounts' = accounts
    /\ ledger' = ledger

\* C9 (amended): an adjustBalance request running alone with addBalance = d
\* (a finite number) on an account with balance B stores B + d, then appends
\* one ledger entry (credit if d >= 0 else debit, amount |d|, the account's
\* currency, source manual_topup, no transactionId, balanceAfter B + d)
\* unless that ledger write fails, in which case it appends none; either way
\* it answers 200 with balance B + d.
C9_TopUpStoresAndRecords ==
  /\ []C9_InFlight
  /\ [][C9_Arrival /\ C9_Save /\ C9_Record /\ C9_Response]_vars

\* a negative top-up was answered 200 with its debit entry in the ledger
C9_Witness ==
  \E p \in Reqs : \E i \in EntriesOf(ledger, p) :
    /\ resp[p].code = 200
    /\ ledger[i].source = "manual_topup"
    /\ ledger[i].type = "debit"
    /\ ledger[i].amount = MaxAmount
    /\ ledger[i].balanceAfter = resp[p].balance
    /\ accounts[resp[p].accountNumber].balance = resp[p].balance

(* C10: payments refused before the decision (SpecPay) *)

AccountNotFound == Error(404, "Cuenta no encontrada.")
CardNotFound == Error(404, "Tarjeta no encontrada.")
InvalidAmountFailure == Error(400, "Monto invalido.")

C10_Unwritten(p) ==
  /\ pc'[p] = "done"
  /\ accounts' = accounts
  /\ ledger' = ledger

C10_NotFound ==
  \A p \in Reqs : Arrives(p) /\ pc'[p] # "idle" =>
    \A amount \in AmountInputs \ {Undef, Null}, currency \in PayCurrencyInputs :
      /\ \A accountNumber \in AcctInputs \ {""} :
           (~HasAccount(accountNumber) /\ PostPaymentOf(p, accountNumber, amount, currency))
             => (resp'[p] = AccountNotFound /\ C10_Unwritten(p))
      /\ \A cardNumber \in CardInputs \ {<<>>} :
           (/\ CardHolders(cleanCardNumber(cardNumber)) = {}
            /\ PostCardPaymentOf(p, cardNumber, GeneratedExpMonth, GeneratedExpYear,
                                 GeneratedCvv, amount, currency))
             => (resp'[p] = CardNotFound /\ C10_Unwritten(p))

C10_InvalidAmount ==
  \A p \in Reqs : Arrives(p) /\ pc'[p] # "idle" =>
    \A a \in Accts, amount \in AmountInputs \ {Undef, Null} :
      (HasAccount(a) /\ (~IsFinite(ToNumber(amount)) \/ ToNumber(amount).n <= 0)) =>
        (PaymentArrives(p, a, amount) =>
           (resp'[p] = InvalidAmountFailure /\ C10_Unwritten(p)))

C10_Refused ==
  \A p \in Reqs :
    resp[p] \in {AccountNotFound, CardNotFound, InvalidAmountFailure} =>
      /\ pc[p] = "done"
      /\ EntriesOf(ledger, p) = {}

\* C10: a payment attempt on an account number or card number that no
\* stored account has is answered 404, and one on an existing account with an
\* amount that is not a finite number > 0 is answered 400 "Monto invalido.";
\* in both cases the handler ends there, writes no account and no ledger
\* entry, and no entry is ever created for it.
C10_RefusedWritesNothing ==
  /\ []C10_Refused
  /\ [][C10_NotFound /\ C10_InvalidAmount]_vars

\* one attempt refused for its amount and one for its account, with the
\* store and the ledger as they were created
C10_Witness ==
  \E p, q \in Reqs :
    /\ resp[p] = InvalidAmountFailure
    /\ resp[q] = AccountNotFound
    /\ \A a \in Accts : accounts[a].exists /\ accounts[a].balance = MaxAmount
    /\ ledger = <<>>

(* C11: validation failures and the stores (SpecPay) *)

MissingPaymentData == Error(400, "Faltan datos obligatorios: accountNumber y amount.")
MissingCardData == Error(400, "Faltan datos obligatorios para el pago con tarjeta.")

\* C11: a payment request answered with a validation failure (required data
\* missing, or an amount that is not a finite number > 0) has issued no
\* operation on the Account or the Transaction collection.
C11_ValidationBeforeStore ==
  \A p \in Reqs :
    resp[p] \in {MissingPaymentData, MissingCardData, InvalidAmountFailure}
      => ~accessed[p]

(* C12: the ledger is append-only (SpecMix) *)

IsPrefix(s, t) == Len(s) <= Len(t) /\ SubSeq(t, 1, Len(s)) = s

Deletes(a) == accounts[a].exists /\ ~accounts'[a].exists

\* C12: every step of every operation (payments, adjustments, deletions,
\* history queries) leaves each ledger entry in place with all its fields:
\* the ledger before the step is a prefix of the ledger after it, which is
\* at most one entry longer; the step that deletes an account leaves the
\* ledger as it was, entries of that account included.
C12_LedgerAppendOnly ==
  [][/\ IsPrefix(ledger, ledger')
     /\ Len(ledger') <= Len(ledger) + 1
     /\ \A a \in Accts : Deletes(a) => ledger' = ledger]_vars

\* an account is gone and an entry of it is still in the ledger
C12_Witness ==
  \E a \in Accts : \E i \in DOMAIN ledger :
    /\ ~accounts[a].exists
    /\ ledger[i].accountNumber = a

(* C13: the response and the pending ledger write (SpecPay) *)

\* the balance decision of payment p is final and its ledger write is
\* pending: the handler is suspended at `await registerTransaction(...)`
LedgerWritePending(p) == PaymentInFlight(p) /\ pc[p] = "record"

\* C13: while the ledger write of a payment attempt is pending, the
\* response of that attempt can be sent.
C13_ResponseNotBehindLedger ==
  \A p \in Reqs : LedgerWritePending(p) => ENABLED Respond(p)

(* C14: a failed account write (SpecMix) *)

\* the handler of p is suspended at the save() of a balance change: of an
\* approved payment or of an addBalance adjustment
BalanceWritePending(p) ==
  /\ pc[p] = "save"
  /\ PaymentInFlight(p) \/ TopUpInFlight(p)
  /\ doc[p].modBalance

C14_Arrival ==
  \A p \in Reqs : (pc[p] = "idle" /\ pc'[p] = "save") => accounts' = accounts

C14_WriteFails ==
  \A p \in Reqs : (BalanceWritePending(p) /\ pc'[p] = "done") =>
    /\ resp'[p].code = 500
    /\ accounts' = accounts
    /\ ledger' = ledger

C14_WriteCommits ==
  \A p \in Reqs : (BalanceWritePending(p) /\ pc'[p] \notin {"save", "done"}) =>
    /\ pc'[p] = "record"
    /\ doc'[p] = doc[p]
    /\ accounts'[doc[p].accountNumber].balance = doc[p].balance
    /\ ledger' = ledger

C14_Recorded ==
  ledger' # ledger =>
    \E p \in Reqs :
      /\ pc[p] = "record"
      /\ pc'[p] = "respond"
      /\ ledger' = Append(ledger, ledger'[Len(ledger')])
      /\ ledger'[Len(ledger')].id = p
      /\ ledger'[Len(ledger')].balanceAfter = doc[p].balance

C14_Failed ==
  \A p \in Reqs : resp[p].code = 500 => pc[p] = "done" /\ EntriesOf(ledger, p) = {}

\* C14: when the account write of an approved payment or of an addBalance
\* adjustment fails, the handler answers 500 at once; neither its steps up
\* to the save() nor the failing step write any stored account, and no
\* ledger entry is ever appended for the request.  An entry is appended only by a handler
\* suspended at its recording step, with the balance its document holds; a
\* handler with a balance change to write gets there only through the save()
\* that stored that very balance.
C14_FailedWriteLeavesNoTrace ==
  /\ []C14_Failed
  /\ [][C14_Arrival /\ C14_WriteFails /\ C14_WriteCommits /\ C14_Recorded]_vars

\* a payment was answered 500 with every balance and the ledger untouched
C14_Witness ==
  \E p \in Reqs :
    /\ resp[p] = CatchResponse("pay")
    /\ \A a \in Accts : accounts[a].exists /\ accounts[a].balance = MaxAmount
    /\ ledger = <<>>

(* C15: the transactionId of a payment attempt (SpecClock) *)

PaymentAnswered(p) == resp[p].code = 200 /\ resp[p].status \in {"approved", "declined"}

\* C15: two distinct completed payment attempts never return the same
\* transactionId (identifiers of different kinds differ by their prefix, so
\* this is about two account payments or two card payments), and no two
\* ledger entries of distinct attempts carry the same transactionId.
C15_TransactionIdUnique ==
  /\ \A p, q \in Reqs :
       (p # q /\ PaymentAnswered(p) /\ PaymentAnswered(q))
         => resp[p].transactionId # resp[q].transactionId
  /\ \A i, j \in DOMAIN ledger :
       (i # j /\ ledger[i].transactionId # NoTransactionId)
         => ledger[i].transactionId # ledger[j].transactionId

(* C16: operations on distinct accounts (SpecMix) *)

\* p is a payment or an adjustment whose handler is suspended
OperationInFlight(p) == InFlight(p) /\ req[p].op \in {"pay", "card", "patch"}

\* the arrival of a payment or an adjustment, up to its first await, writes
\* nothing, and the account it loads is the one the request names
C16_Arrival ==
  \A p \in Reqs : (pc[p] = "idle" /\ pc'[p] # "idle" /\ req'[p].op \in {"pay", "card", "patch"}) =>
    /\ accounts' = accounts
    /\ ledger' = ledger
    /\ req'[p].op \in {"pay", "patch"} => doc'[p].accountNumber = req'[p].accountNumber
    /\ req'[p].op = "card" =>
         accounts[doc'[p].accountNumber].card.cardNumber = req'[p].cardNumber

\* a later step of the operation on X touches X only
C16_Step ==
  \A p \in Reqs : (OperationInFlight(p) /\ pc'[p] # pc[p]) =>
    LET X == doc[p].accountNumber IN
      /\ \A Y \in Accts \ {X} : accounts'[Y] = accounts[Y]
      /\ ledger' # ledger =>
           /\ ledger' = Append(ledger, ledger'[Len(ledger')])
           /\ ledger'[Len(ledger')].accountNumber = X
      /\ pc'[p] # "done" => doc'[p].accountNumber = X

\* whatever the other requests are doing, a suspended operation can take
\* its next step and a new payment or adjustment can start
C16_NotBlocked ==
  \A p \in Reqs :
    /\ OperationInFlight(p) => ENABLED Resume(p)
    /\ Arrives(p) => (ENABLED PostPayment(p) /\ ENABLED PatchAccount(p))

\* C16: a payment or adjustBalance on account X writes no stored field of
\* any other account Y and appends no ledger entry carrying another account
\* number than X's, and its handler can always take its next step, whatever
\* operations are in flight on other accounts.
C16_AccountsIndependent ==
  /\ []C16_NotBlocked
  /\ [][C16_Arrival /\ C16_Step]_vars

\* an operation on one account has stored its balance and waits to record
\* it, while one on the other account waits to save: that account is
\* untouched
C16_Witness ==
  \E p, q \in Reqs :
    /\ OperationInFlight(p) /\ OperationInFlight(q)
    /\ doc[p].accountNumber # doc[q].accountNumber
    /\ pc[p] = "record" /\ pc[q] = "save"
    /\ accounts[doc[p].accountNumber].balance < MaxAmount
    /\ accounts[doc[q].accountNumber].balance = MaxAmount

(* C17: the transaction history (SpecList) *)

Range(s) == {s[k] : k \in DOMAIN s}

Min(m, n) == IF m <= n THEN m ELSE n

\* txs is a page of the history of account a, as the ledger stands
IsHistoryPage(txs, a) ==
  /\ \A k \in DOMAIN txs :
       /\ txs[k].accountNumber = a
       /\ \E i \in DOMAIN ledger : ledger[i] = txs[k]
  /\ \A k, l \in DOMAIN txs :
       /\ k # l => txs[k].id # txs[l].id
       /\ k < l => txs[k].createdAt >= txs[l].createdAt
  /\ Len(txs) = Min(PageLimit, Cardinality(Matching(a)))
  /\ \A i \in Matching(a) :
       ledger[i] \notin Range(txs) =>
         \A k \in DOMAIN txs : ledger[i].createdAt <= txs[k].createdAt

C17_Query ==
  \A p \in Reqs : (Arrives(p) /\ pc'[p] = "done") =>
    \A a \in AcctInputs \ {""} :
      ListTransactionsOf(p, a) =>
        /\ resp'[p].code = 200
        /\ IsHistoryPage(resp'[p].txs, a)
        /\ ledger' = ledger
        /\ accounts' = accounts

\* C17: the history query for an account number answers 200 with entries of
\* the ledger that all carry that account number, each once, ordered by
\* createdAt descending, as many as the account has but at most 50, no entry
\* left out being newer than one returned; it changes neither the ledger nor
\* any account.
C17_HistoryNewestFirstCapped ==
  [][C17_Query]_vars

\* a full page was returned while the account has more entries, one of them
\* appended by a payment since the server started
C17_Witness ==
  \E p \in Reqs :
    /\ resp[p].code = 200
    /\ "txs" \in DOMAIN resp[p]
    /\ Len(resp[p].txs) = PageLimit
    /\ Cardinality(Matching(resp[p].accountNumber)) > PageLimit
    /\ resp[p].txs[1].id \in Reqs

(* C18: ledger amounts (SpecAdm) *)

\* C18: every entry of the ledger has an amount strictly greater than zero.
C18_LedgerAmountsPositive ==
  \A i \in DOMAIN ledger : ledger[i].amount > 0

(* C19: no lost updates (SpecTopUp) *)

\* the amount request p was approved to pay out of account a, from its answer
Paid(p, a) ==
  IF resp[p].code = 200 /\ resp[p].status = "approved" /\ resp[p].accountNumber = a
  THEN resp[p].amount ELSE 0

\* the addBalance delta the ledger entry e records for account a
Adjusted(e, a) ==
  IF e.source = "manual_topup" /\ e.accountNumber = a
  THEN (IF e.type = "credit" THEN e.amount ELSE 0 - e.amount) ELSE 0

RECURSIVE SumPaid(_, _)
SumPaid(S, a) ==
  IF S = {} THEN 0
  ELSE LET p == CHOOSE q \in S : TRUE IN Paid(p, a) + SumPaid(S \ {p}, a)

RECURSIVE SumAdjusted(_, _)
SumAdjusted(k, a) ==
  IF k = 0 THEN 0 ELSE Adjusted(ledger[k], a) + SumAdjusted(k - 1, a)

\* C19: once every payment and addBalance adjustment has completed (no step
\* of the store failing), each account's stored balance is its initial
\* balance plus the addBalance deltas applied to it minus the amounts of the
\* payments approved on it.
C19_NoLostUpdates ==
  (\A p \in Reqs : pc[p] = "done") =>
    \A a \in Accts :
      accounts[a].balance = MaxAmount + SumAdjusted(Len(ledger), a) - SumPaid(Reqs, a)

(* C20: the audit chain (SpecAudit) *)

\* entries i < j of the ledger are consecutive entries of one account
Consecutive(i, j) ==
  /\ i < j
  /\ ledger[i].accountNumber = ledger[j].accountNumber
  /\ \A k \in (i + 1)..(j - 1) : ledger[k].accountNumber # ledger[i].accountNumber

\* e2 accounts for the whole change of the balance since e1
Chained(e1, e2) ==
  \/ e2.balanceAfter = e1.balanceAfter
  \/ e2.type = "debit" /\ e2.balanceAfter = e1.balanceAfter - e2.amount
  \/ e2.type = "credit" /\ e2.balanceAfter = e1.balanceAfter + e2.amount

\* C20: when operations do not overlap and no ledger write fails, any two
\* consecutive ledger entries e1, e2 of one account satisfy e2.balanceAfter =
\* e1.balanceAfter, or e1.balanceAfter - e2.amount for a debit, or
\* e1.balanceAfter + e2.amount for a credit: every change of the stored
\* balance is reflected by a ledger entry.
C20_AuditChain ==
  \A i, j \in DOMAIN ledger : Consecutive(i, j) => Chained(ledger[i], ledger[j])

=============================================================================
